---- MODULE Spec2Model ----
(***************************************************************************)
(* Model of the snake package: the Snake sprite (sprites.py / game.py),    *)
(* the score state (game_state.py), food placement and the game loop       *)
(* SnakeGame.update with its collision checks (game.py).                   *)
(*                                                                         *)
(* Coordinates are turtle coordinates.  Every coordinate the program ever  *)
(* produces is an integer valued float (sums of +-move_delta and randint   *)
(* results), so positions are modelled as integers.  turtle.distance() is  *)
(* sqrt(dx^2 + dy^2); comparing it with an integer k is modelled by        *)
(* comparing dx^2 + dy^2 with k^2.                                         *)
(***************************************************************************)
EXTENDS Integers, Sequences, FiniteSets, TLC

VARIABLES
    config,          \* Config / SpriteConfig fields the engine reads
    move_delta_map,  \* Snake._move_delta_map (class level)
    head,            \* position of Snake.head
    head_direction,  \* Snake.head_direction
    segments,        \* positions of Snake.segments, segments[1] nearest the head
    food,            \* position of the Food sprite, NoFood before it exists
    current,         \* _Scores.current
    best,            \* _Scores.best
    timers,          \* pending screen.ontimer(self.update, delay) callbacks
    tick,            \* history: parity of the number of update() runs
    last_move,       \* history: direction of the latest head displacement since reset
    op,              \* history: the operation that produced this state
    pre              \* history: the snake, food and score before that operation

vars == <<config, move_delta_map, head, head_direction, segments, food,
          current, best, timers, tick, last_move, op, pre>>

(***************************************************************************)
(* Bounds of the model.                                                    *)
(***************************************************************************)
\* Configuration instance the state machines run with (a scaled board).
BoardWidth == 16
BoardHeight == 16
BoardScoreboard == 4
BoardSprite == 4
BoardDelta == 2
\* Snake.move as a free operation keeps |x|, |y| <= MaxReach.
MaxReach == 6
\* add_segment is offered while the snake has fewer segments than this.
MaxSegments == 2
\* add_to_score is offered while current + value stays within this.
MaxScore == 5

(***************************************************************************)
(* constants.py                                                            *)
(***************************************************************************)
Direction == {"UP", "DOWN", "LEFT", "RIGHT", "STOP"}

None == "None"

\* _BACKTRACK_MAP.get(name): None for a name that is not a key.
BACKTRACK_MAP(name) ==
    CASE name = "UP" -> "DOWN"
      [] name = "DOWN" -> "UP"
      [] name = "LEFT" -> "RIGHT"
      [] name = "RIGHT" -> "LEFT"
      [] OTHER -> None

is_opposite_never(self, d) == FALSE

\* Direction.is_opposite: self.name == _BACKTRACK_MAP.get(d.name)
is_opposite(self, d) == self = BACKTRACK_MAP(d)

(***************************************************************************)
(* config.py / game.py: Config and SpriteConfig                            *)
(***************************************************************************)
Config(w, h, sb, sprite, delta) ==
    [display_width |-> w, display_height |-> h, scoreboard_height |-> sb,
     sprite_size |-> sprite, move_delta |-> delta]

\* The defaults of Config() and SpriteConfig() in game.py.
DefaultConfig == Config(600, 600, 50, 20, 5)

\* The configuration the state machines are run with.
BoardConfig ==
    Config(BoardWidth, BoardHeight, BoardScoreboard, BoardSprite, BoardDelta)

\* SpriteConfig.food_attributes: the value of each food variant.
food_values == {1, 2, 3}

(***************************************************************************)
(* sprites.py: Snake                                                       *)
(***************************************************************************)
NoFood == <<>>

\* Snake.set_move_delta_map
set_move_delta_map(delta) ==
    [d \in Direction \ {"STOP"} |->
        CASE d = "UP" -> <<0, delta>>
          [] d = "DOWN" -> <<0, 0 - delta>>
          [] d = "LEFT" -> <<0 - delta, 0>>
          [] d = "RIGHT" -> <<delta, 0>>]

\* The snake as a record, so that operations compose as in the code.
Snake(h, d, segs, lm) ==
    [head |-> h, head_direction |-> d, segments |-> segs, last_move |-> lm]

TheSnake == Snake(head, head_direction, segments, last_move)

reset_snake_keep_segments(s) == Snake(<<0, 0>>, "STOP", s.segments, None)

reset_snake_keep_heading(s) == Snake(<<0, 0>>, s.head_direction, <<>>, None)

\* Snake.reset_snake
reset_snake(s) == Snake(<<0, 0>>, "STOP", <<>>, None)

set_direction_and_step(s, direction) ==
    IF ~ is_opposite(direction, s.head_direction)
    THEN [s EXCEPT !.head_direction = direction,
                   !.head = IF direction = "STOP" THEN @
                            ELSE <<@[1] + set_move_delta_map(1)[direction][1],
                                   @[2] + set_move_delta_map(1)[direction][2]>>]
    ELSE s

set_direction_vs_last_move(s, direction) ==
    IF ~ is_opposite(direction, s.last_move)
    THEN [s EXCEPT !.head_direction = direction]
    ELSE s

\* Snake.set_direction
set_direction(s, direction) ==
    IF ~ is_opposite(direction, s.head_direction)
    THEN [s EXCEPT !.head_direction = direction]
    ELSE s

\* Snake._backtrack.get(direction) of game.py: None for STOP.
backtrack(direction) ==
    CASE direction = "UP" -> "DOWN"
      [] direction = "DOWN" -> "UP"
      [] direction = "LEFT" -> "RIGHT"
      [] direction = "RIGHT" -> "LEFT"
      [] OTHER -> None

\* Snake.set_direction of game.py
game_set_direction(s, direction) ==
    IF s.head_direction /= backtrack(direction)
    THEN [s EXCEPT !.head_direction = direction]
    ELSE s

add_segment_at_head(s) == [s EXCEPT !.segments = Append(@, s.head)]

\* Snake.add_segment
add_segment(s) ==
    IF s.segments /= <<>>
    THEN [s EXCEPT !.segments = Append(@, s.segments[Len(s.segments)])]
    ELSE [s EXCEPT !.segments = Append(@, s.head)]

update_tail_forward(segs, prev_head_position) ==
    [i \in 1..Len(segs) |-> prev_head_position]

\* Snake.update_tail: walking from the tail end, each segment takes the
\* position its predecessor still has; then segments[0] takes the old head
\* position.
update_tail(segs, prev_head_position) ==
    [i \in 1..Len(segs) |->
        IF i = 1 THEN prev_head_position ELSE segs[i - 1]]

move_when_stopped(s, deltas) ==
    LET d == IF s.head_direction = "STOP" THEN "UP" ELSE s.head_direction
        delta == deltas[d]
    IN  [s EXCEPT !.head = <<s.head[1] + delta[1], s.head[2] + delta[2]>>,
                  !.segments = update_tail(s.segments, s.head),
                  !.last_move = d]

\* Snake.move
move(s, deltas) ==
    IF s.head_direction /= "STOP"
    THEN LET delta == deltas[s.head_direction]
             previous_head_position == s.head
         IN  [s EXCEPT !.head = <<s.head[1] + delta[1], s.head[2] + delta[2]>>,
                       !.segments = update_tail(s.segments, previous_head_position),
                       !.last_move = s.head_direction]
    ELSE s

(***************************************************************************)
(* History bookkeeping                                                     *)
(***************************************************************************)
Snapshot ==
    [head |-> head, head_direction |-> head_direction, segments |-> segments,
     last_move |-> last_move, food |-> food, current |-> current, best |-> best]

Op(name, arg, value, result, calls) ==
    [name |-> name, arg |-> arg, value |-> value, result |-> result,
     calls |-> calls]

SetSnake(s) ==
    /\ head' = s.head
    /\ head_direction' = s.head_direction
    /\ segments' = s.segments
    /\ last_move' = s.last_move

(***************************************************************************)
(* Initial state: GameState.__init__ (Snake() resets itself, _Scores() is  *)
(* 0/0, _food is None).                                                    *)
(***************************************************************************)
Init ==
    /\ config = BoardConfig
    /\ move_delta_map = set_move_delta_map(config.move_delta)
    /\ head = <<0, 0>>
    /\ head_direction = "STOP"
    /\ segments = <<>>
    /\ last_move = None
    /\ food = NoFood
    /\ current = 0
    /\ best = 0
    /\ timers = 0
    /\ tick = FALSE
    /\ op = Op("init", None, 0, FALSE, {})
    /\ pre = Snapshot

(***************************************************************************)
(* Operations on the snake                                                 *)
(***************************************************************************)
InReach(p) ==
    /\ p[1] <= MaxReach /\ 0 - p[1] <= MaxReach
    /\ p[2] <= MaxReach /\ 0 - p[2] <= MaxReach

\* A key press in the game: the listener bound in setup_listeners calls
\* set_direction(d) of the game's own Snake class.
KeyPress ==
    \E d \in Direction :
        /\ SetSnake(game_set_direction(TheSnake, d))
        /\ op' = Op("set_direction", d, 0, FALSE, {"set_direction"})
        /\ pre' = Snapshot
        /\ UNCHANGED <<config, move_delta_map, food, current, best, timers, tick>>

\* Snake.set_direction(d) of sprites.py.
SetDirection ==
    \E d \in Direction :
        /\ SetSnake(set_direction(TheSnake, d))
        /\ op' = Op("set_direction", d, 0, FALSE, {"set_direction"})
        /\ pre' = Snapshot
        /\ UNCHANGED <<config, move_delta_map, food, current, best, timers, tick>>

Move ==
    /\ InReach(move(TheSnake, move_delta_map).head)
    /\ SetSnake(move(TheSnake, move_delta_map))
    /\ op' = Op("move", None, 0, FALSE, {"move"})
    /\ pre' = Snapshot
    /\ UNCHANGED <<config, move_delta_map, food, current, best, timers, tick>>

AddSegment ==
    /\ Len(segments) < MaxSegments
    /\ SetSnake(add_segment(TheSnake))
    /\ op' = Op("add_segment", None, 0, FALSE, {"add_segment"})
    /\ pre' = Snapshot
    /\ UNCHANGED <<config, move_delta_map, food, current, best, timers, tick>>

ResetSnake ==
    /\ SetSnake(reset_snake(TheSnake))
    /\ op' = Op("reset_snake", None, 0, FALSE, {"reset_snake"})
    /\ pre' = Snapshot
    /\ UNCHANGED <<config, move_delta_map, food, current, best, timers, tick>>

(***************************************************************************)
(* game_state.py: the score                                                *)
(***************************************************************************)
Scores(c, b) == [current |-> c, best |-> b]

Max(a, b) == IF a >= b THEN a ELSE b

reset_current_and_best(sc) == Scores(0, 0)

\* GameState.reset_current
reset_current(sc) == [sc EXCEPT !.current = 0]

add_to_score_keep_best(sc, value) == [sc EXCEPT !.current = @ + value]

\* GameState.add_to_score
add_to_score(sc, value) ==
    LET c == sc.current + value
    IN  Scores(c, Max(c, sc.best))

AddToScore ==
    \E value \in food_values :
        /\ current + value <= MaxScore
        /\ current' = add_to_score(Scores(current, best), value).current
        /\ best' = add_to_score(Scores(current, best), value).best
        /\ op' = Op("add_to_score", None, value, FALSE, {"add_to_score"})
        /\ pre' = Snapshot
        /\ UNCHANGED <<config, move_delta_map, head, head_direction, segments,
                       last_move, food, timers, tick>>

ResetCurrent ==
    /\ current' = reset_current(Scores(current, best)).current
    /\ best' = reset_current(Scores(current, best)).best
    /\ op' = Op("reset_current", None, 0, FALSE, {"reset_current"})
    /\ pre' = Snapshot
    /\ UNCHANGED <<config, move_delta_map, head, head_direction, segments,
                   last_move, food, timers, tick>>

(***************************************************************************)
(* game.py: collision checks, food placement and the game loop             *)
(***************************************************************************)
\* turtle.distance(), squared.
Dist2(p, q) == (p[1] - q[1]) * (p[1] - q[1]) + (p[2] - q[2]) * (p[2] - q[2])

edge_collision_no_scoreboard(h, cfg) ==
    LET half_head_size == cfg.sprite_size \div 2
        x_min == 0 - ((cfg.display_width \div 2) - half_head_size)
        y_min == 0 - ((cfg.display_height \div 2) - half_head_size)
    IN  ~ (/\ x_min <= h[1] /\ h[1] <= 0 - x_min
           /\ y_min <= h[2] /\ h[2] <= 0 - y_min)

\* SnakeGame.edge_collision
edge_collision(h, cfg) ==
    LET x_coord == h[1]
        y_coord == h[2]
        half_head_size == cfg.sprite_size \div 2
        half_width == cfg.display_width \div 2
        half_height == cfg.display_height \div 2
        x_min == 0 - (half_width - half_head_size)
        x_max == 0 - x_min
        y_min == 0 - (half_height - half_head_size)
        y_max == (0 - y_min) - cfg.scoreboard_height
    IN  ~ (/\ x_min <= x_coord /\ x_coord <= x_max
           /\ y_min <= y_coord /\ y_coord <= y_max)

\* SnakeGame.tail_collision: every segment is tested, with <=.
tail_collision(h, segs, cfg) ==
    LET half_head_size == cfg.sprite_size \div 2
    IN  \E i \in 1..Len(segs) :
            Dist2(segs[i], h) <= half_head_size * half_head_size

check_collision_tail_only(h, segs, cfg) == tail_collision(h, segs, cfg)

\* SnakeGame.check_collision
check_collision(h, segs, cfg) ==
    edge_collision(h, cfg) \/ tail_collision(h, segs, cfg)

\* Food.place_food of sprites.py: the positions randint can return.
place_food(cfg) ==
    LET padding == cfg.sprite_size
        x_max == (cfg.display_width \div 2) - padding
        half_height == cfg.display_height \div 2
        y_max == (half_height - cfg.scoreboard_height) - padding
        y_min == padding - half_height
    IN  {<<x, y>> : x \in (0 - x_max)..x_max, y \in y_min..y_max}

\* GameState.add_food_item: a new Food places itself.
AddFoodItem ==
    /\ food' \in place_food(config)
    /\ op' = Op("add_food_item", None, 0, FALSE, {"place_food"})
    /\ pre' = Snapshot
    /\ UNCHANGED <<config, move_delta_map, head, head_direction, segments,
                   last_move, current, best, timers, tick>>

\* Food.replace_food on the food item that exists.
ReplaceFood ==
    /\ food /= NoFood
    /\ food' \in place_food(config)
    /\ op' = Op("replace_food", None, 0, FALSE, {"replace_food", "place_food"})
    /\ pre' = Snapshot
    /\ UNCHANGED <<config, move_delta_map, head, head_direction, segments,
                   last_move, current, best, timers, tick>>

\* Food.place_food of game.py: the positions randint can return.
game_place_food(cfg) ==
    LET padding == cfg.sprite_size
        x_max == (cfg.display_width \div 2) - padding
        y_max == (cfg.display_height \div 2) - padding
    IN  {<<x, y>> : x \in (0 - x_max)..x_max, y \in (0 - y_max)..y_max}

check_and_reset(result, s) ==
    [result |-> result, snake |-> IF result THEN reset_snake(s) ELSE s]

\* What a call of a collision check leaves behind: the value it returns and
\* the snake, which it only reads (xcor, ycor, distance).
pure_check(result, s) == [result |-> result, snake |-> s]

\* SnakeGame.tail_collision called on the current snake.
TailCollision ==
    LET call == pure_check(tail_collision(head, segments, config), TheSnake)
    IN  /\ SetSnake(call.snake)
        /\ op' = Op("tail_collision", None, 0, call.result, {"tail_collision"})
        /\ pre' = Snapshot
        /\ UNCHANGED <<config, move_delta_map, food, current, best, timers, tick>>

\* SnakeGame.edge_collision called on the current head.
EdgeCollision ==
    LET call == pure_check(edge_collision(head, config), TheSnake)
    IN  /\ SetSnake(call.snake)
        /\ op' = Op("edge_collision", None, 0, call.result, {"edge_collision"})
        /\ pre' = Snapshot
        /\ UNCHANGED <<config, move_delta_map, food, current, best, timers, tick>>

ontimer_twice(pending) == pending + 2

ontimer_dropped(pending) == pending

\* screen.ontimer(self.update, self.delay): one more callback is pending.
ontimer(pending) == pending + 1

\* SnakeGame.update, run by a pending timer callback: move, reset the snake
\* on a collision, redraw, schedule the next update.
Update ==
    /\ timers > 0
    /\ LET moved == move(TheSnake, move_delta_map)
           collided == check_collision(moved.head, moved.segments, config)
       IN  /\ SetSnake(IF collided THEN reset_snake(moved) ELSE moved)
           /\ op' = Op("update", None, 0, collided,
                       {"move", "check_collision", "ontimer"}
                           \cup (IF collided THEN {"reset_snake"} ELSE {}))
    /\ timers' = ontimer(timers - 1)
    /\ tick' = ~ tick
    /\ pre' = Snapshot
    /\ UNCHANGED <<config, move_delta_map, food, current, best>>

\* State after SnakeGame.__init__: score 0, a fresh snake, the food placed,
\* and the first update() already run (heading STOP, head at the origin), which
\* left one timer callback pending.
InitGame ==
    /\ config = BoardConfig
    /\ move_delta_map = set_move_delta_map(config.move_delta)
    /\ head = <<0, 0>>
    /\ head_direction = "STOP"
    /\ segments = <<>>
    /\ last_move = None
    /\ food \in game_place_food(config)
    /\ current = 0
    /\ best = 0
    /\ timers = 1
    /\ tick = TRUE
    /\ op = Op("init", None, 0, FALSE, {})
    /\ pre = Snapshot

\* Snake._move_delta_map before the first Snake exists: an empty dict.
NoMap == <<>>

\* Snake.__init__: the class level map is filled in only while it is empty.
init_move_delta_map(map, delta) ==
    IF map = NoMap THEN set_move_delta_map(delta) ELSE map

\* One more Snake is created, with a configuration of its own: it becomes
\* the snake the model follows.
NewSnake ==
    \E delta \in {BoardDelta, BoardDelta + 1} :
        /\ config' = [config EXCEPT !.move_delta = delta]
        /\ move_delta_map' = init_move_delta_map(move_delta_map, delta)
        /\ SetSnake(reset_snake(TheSnake))
        /\ op' = Op("Snake", None, delta, FALSE, {"reset_snake"})
        /\ pre' = Snapshot
        /\ UNCHANGED <<food, current, best, timers, tick>>

\* Configurations a program can be started with, malformed ones included.
StartConfigs ==
    {BoardConfig,
     [BoardConfig EXCEPT !.display_width = 0],
     [BoardConfig EXCEPT !.display_height = 0],
     [BoardConfig EXCEPT !.display_width = 0 - BoardWidth],
     [BoardConfig EXCEPT !.sprite_size = 0],
     [BoardConfig EXCEPT !.display_width = 0, !.sprite_size = 0]}

\* Before anything is constructed: the configuration objects exist, the
\* class level map is empty, nothing else does.
InitStart ==
    /\ config \in StartConfigs
    /\ move_delta_map = NoMap
    /\ head = <<0, 0>>
    /\ head_direction = "STOP"
    /\ segments = <<>>
    /\ last_move = None
    /\ food = NoFood
    /\ current = 0
    /\ best = 0
    /\ timers = 0
    /\ tick = FALSE
    /\ op = Op("start", None, 0, FALSE, {})
    /\ pre = Snapshot

\* SnakeGame(config, sprite_config): nothing validates the configuration.
\* Snake() is created, then Food(), whose place_food raises ValueError when a
\* randint range is empty; otherwise the first update() runs (heading STOP:
\* the snake is at its reset state before and after) and schedules the next.
\* op.result tells whether the constructor raised.
NewSnakeGame ==
    /\ op.name = "start"
    /\ move_delta_map' = init_move_delta_map(move_delta_map, config.move_delta)
    /\ SetSnake(reset_snake(TheSnake))
    /\ IF game_place_food(config) = {}
       THEN /\ op' = Op("SnakeGame", None, 0, TRUE, {"Snake", "Food"})
            /\ UNCHANGED <<food, timers, tick>>
       ELSE /\ food' \in game_place_food(config)
            /\ timers' = ontimer(timers)
            /\ tick' = ~ tick
            /\ op' = Op("SnakeGame", None, 0, FALSE,
                        {"Snake", "Food", "update", "ontimer"})
    /\ pre' = Snapshot
    /\ UNCHANGED <<config, current, best>>

\* GameState(config, sprite_config): stores the configuration, creates the
\* scores and the snake; nothing is validated and nothing raises.
NewGameState ==
    /\ op.name = "start"
    /\ move_delta_map' = init_move_delta_map(move_delta_map, config.move_delta)
    /\ SetSnake(reset_snake(TheSnake))
    /\ op' = Op("GameState", None, 0, FALSE, {"Snake"})
    /\ pre' = Snapshot
    /\ UNCHANGED <<config, food, current, best, timers, tick>>

\* Heads the edge check is probed with, around the edges of both boards.
ProbeCoords ==
    {-291, -290, -241, -240, -7, -6, -3, -2, 0, 2, 3, 6, 7, 240, 241, 290, 291}

InitProbe ==
    /\ config \in {BoardConfig, DefaultConfig}
    /\ move_delta_map = set_move_delta_map(config.move_delta)
    /\ head \in ProbeCoords \X ProbeCoords
    /\ head_direction = "STOP"
    /\ segments = <<>>
    /\ last_move = None
    /\ food = NoFood
    /\ current = 0
    /\ best = 0
    /\ timers = 0
    /\ tick = FALSE
    /\ op = Op("init", None, 0, FALSE, {})
    /\ pre = Snapshot

(***************************************************************************)
(* Specifications                                                          *)
(***************************************************************************)
\* The snake driven through its public operations in any order.
Next ==
    \/ SetDirection
    \/ KeyPress
    \/ Move
    \/ AddSegment
    \/ ResetSnake
    \/ TailCollision
    \/ EdgeCollision

Spec == Init /\ [][Next]_vars

\* The score driven by eat and reset events, interleaved with the snake
\* operations that happen between them.
NextScore ==
    \/ AddToScore
    \/ ResetCurrent
    \/ SetDirection
    \/ Move
    \/ ResetSnake

SpecScore == Init /\ [][NextScore]_vars

\* The edge check applied to probe heads under both configurations.
NextProbe == EdgeCollision

SpecProbe == InitProbe /\ [][NextProbe]_vars

\* The game as SnakeGame runs it: key presses and timer driven updates.
NextGame ==
    \/ KeyPress
    \/ Update

SpecGame == InitGame /\ [][NextGame]_vars

\* The game loop under a fair timer: the Tk main loop runs a pending ontimer
\* callback once its delay has passed.  update() never reads the food, which
\* is kept at one of its positions here.
InitLive == InitGame /\ food = <<0, 0>>

SpecLive == InitLive /\ [][NextGame]_vars /\ WF_vars(Update)

\* Program start under any configuration.
NextStart ==
    \/ NewSnakeGame
    \/ NewGameState

SpecStart == InitStart /\ [][NextStart]_vars

\* Snakes created one after the other, each with its own step distance.
NextSnakes ==
    \/ NewSnake
    \/ SetDirection
    \/ Move

SpecSnakes == Init /\ [][NextSnakes]_vars

\* The food of GameState: created by add_food_item, re-placed when eaten.
NextFood ==
    \/ AddFoodItem
    \/ ReplaceFood

SpecFood == Init /\ [][NextFood]_vars

(***************************************************************************)
(* Properties                                                              *)
(***************************************************************************)
\* Pairs (heading, request) that are reversals.
Reversals ==
    {<<"UP", "DOWN">>, <<"DOWN", "UP">>, <<"LEFT", "RIGHT">>, <<"RIGHT", "LEFT">>}

\* C1: set_direction(d2) while the heading is d1 keeps d1 when d2 is the
\* opposite of d1 and otherwise makes the heading d2; a request made while
\* the heading is STOP, and a request for STOP, is always accepted.
C1_SetDirection ==
    op.name = "set_direction" =>
        /\ head_direction =
              IF <<pre.head_direction, op.arg>> \in Reversals
              THEN pre.head_direction ELSE op.arg
        /\ (pre.head_direction = "STOP" \/ op.arg = "STOP")
              => head_direction = op.arg

C1_Witness ==
    /\ op.name = "set_direction"
    /\ pre.head_direction = "LEFT"
    /\ op.arg = "RIGHT"
    /\ head_direction = "LEFT"

\* C2: the direction of a head displacement is never the opposite of the
\* direction of the previous head displacement (no reset in between).
C2_NoDoubleBack ==
    (op.name = "move" /\ pre.last_move /= None /\ last_move /= None)
        => <<pre.last_move, last_move>> \notin Reversals

\* C3: after move() with a non-STOP heading and n >= 1 segments, segment 1
\* is at the head's pre-move position, every later segment is at its
\* predecessor's pre-move position, and the number of segments is unchanged.
C3_SegmentChain ==
    (op.name = "move" /\ pre.head_direction /= "STOP" /\ Len(pre.segments) >= 1)
        => /\ Len(segments) = Len(pre.segments)
           /\ segments[1] = pre.head
           /\ \A i \in 2..Len(pre.segments) : segments[i] = pre.segments[i - 1]

C3_Witness ==
    /\ op.name = "move"
    /\ pre.head_direction /= "STOP"
    /\ Len(pre.segments) >= 2
    /\ pre.segments[1] /= pre.head
    /\ segments[2] = pre.segments[1]
    /\ head /= pre.head

\* C4: while the heading is STOP, move() changes neither the head position,
\* nor any segment, nor the segment count, nor the heading.
C4_StopMoveNoop ==
    (op.name = "move" /\ pre.head_direction = "STOP")
        => /\ head = pre.head
           /\ segments = pre.segments
           /\ head_direction = "STOP"

C4_Witness ==
    /\ op.name = "move"
    /\ pre.head_direction = "STOP"
    /\ Len(segments) >= 1
    /\ head /= <<0, 0>>

\* C5: best >= current, and both scores are non-negative, in every state.
C5_ScoreInvariant ==
    /\ best >= current
    /\ current >= 0
    /\ best >= 0

C5_Witness ==
    /\ op.name = "add_to_score"
    /\ pre.current = 0
    /\ pre.best > op.value
    /\ best = pre.best
    /\ current = op.value

\* C6: no operation lowers the best score, and a reset of the current
\* score leaves it unchanged.
C6_BestMonotone ==
    /\ best >= pre.best
    /\ op.name = "reset_current" => best = pre.best

C6_Witness ==
    /\ op.name = "reset_current"
    /\ pre.current > 0
    /\ current = 0
    /\ best = pre.best
    /\ best > 0

\* C7: edge collision is true iff the head is outside the closed rectangle
\* x in [-(W-s), W-s], y in [-(H-s), H-Hs-s]; with board 600x600, scoreboard
\* 50 and sprite 20 a head at y = 240 does not collide and one at y = 241 does.
C7_EdgeCollision ==
    op.name = "edge_collision" =>
        LET W == config.display_width \div 2
            H == config.display_height \div 2
            s == config.sprite_size \div 2
            Hs == config.scoreboard_height
            inside == /\ 0 - (W - s) <= head[1] /\ head[1] <= W - s
                      /\ 0 - (H - s) <= head[2] /\ head[2] <= H - Hs - s
        IN  /\ op.result = ~ inside
            /\ (config = DefaultConfig /\ head = <<0, 240>>) => ~ op.result
            /\ (config = DefaultConfig /\ head[2] = 241) => op.result

C7_Witness ==
    /\ op.name = "edge_collision"
    /\ config = DefaultConfig
    /\ head = <<0, 241>>
    /\ op.result

\* C8: self collision is true iff some segment other than the one nearest
\* the head is at a distance strictly less than half the sprite size.
C8_SelfCollision ==
    op.name = "tail_collision" =>
        LET s == config.sprite_size \div 2
        IN  op.result = (\E i \in 2..Len(segments) :
                            Dist2(segments[i], head) < s * s)

\* C9: a tick whose collision check is true resets the current score to 0,
\* resets the snake (head at the origin, heading STOP, no segments) and
\* re-places the food.
C9_CollisionReset ==
    (op.name = "update" /\ op.result) =>
        /\ current = 0
        /\ "reset_current" \in op.calls
        /\ head = <<0, 0>> /\ head_direction = "STOP" /\ segments = <<>>
        /\ "replace_food" \in op.calls

\* C10, on the ticks without a collision: food is eaten iff the distance
\* between head and food is strictly less than the sprite size; when eaten
\* the segment count and the current score grow by 1, best becomes
\* max(best, current) and the food is re-placed; otherwise score, segment
\* count and food position are unchanged.
C10_FoodStep ==
    (op.name = "update" /\ ~ op.result) =>
        IF Dist2(head, pre.food) < config.sprite_size * config.sprite_size
        THEN /\ Len(segments) = Len(pre.segments) + 1
             /\ current = pre.current + 1
             /\ best = Max(pre.best, current)
             /\ "replace_food" \in op.calls
        ELSE /\ Len(segments) = Len(pre.segments)
             /\ current = pre.current
             /\ best = pre.best
             /\ food = pre.food

\* C11, tick by tick: the segment count follows the number of food items
\* eaten since the last reset.  A tick that ends in a collision leaves at
\* most the one item eaten after the reset; a tick without a collision adds
\* one segment exactly when the head is within the sprite size of the food.
C11_SegmentsCountEaten ==
    op.name = "update" =>
        IF op.result
        THEN Len(segments) <= 1
        ELSE Len(segments) = Len(pre.segments) +
                 (IF Dist2(head, pre.food) < config.sprite_size * config.sprite_size
                  THEN 1 ELSE 0)

\* C12: reset_snake from any state leaves the head at the origin, the
\* heading STOP and the segment list empty.
C12_ResetSnake ==
    op.name = "reset_snake" =>
        /\ head = <<0, 0>>
        /\ head_direction = "STOP"
        /\ segments = <<>>

C12_Witness ==
    /\ op.name = "reset_snake"
    /\ pre.head /= <<0, 0>>
    /\ pre.head_direction \notin {"STOP"}
    /\ Len(pre.segments) = MaxSegments
    /\ segments = <<>>

\* C13: add_segment grows the segment list by exactly one, the new last
\* segment being at the position of the previous last segment (at the head
\* position when there was none), and leaves the head, the heading and the
\* earlier segments unchanged; the next move() puts the new segment at the
\* pre-move position of its predecessor.
C13_AddSegment ==
    /\ op.name = "add_segment" =>
          /\ Len(segments) = Len(pre.segments) + 1
          /\ segments[Len(segments)] =
                IF pre.segments = <<>> THEN pre.head
                ELSE pre.segments[Len(pre.segments)]
          /\ SubSeq(segments, 1, Len(pre.segments)) = pre.segments
          /\ head = pre.head
          /\ head_direction = pre.head_direction
    /\ (/\ op.name = "move"
        /\ pre.segments /= <<>>
        /\ pre.segments[Len(pre.segments)] =
              IF Len(pre.segments) = 1 THEN pre.head
              ELSE pre.segments[Len(pre.segments) - 1])
          => segments[Len(segments)] =
                IF Len(pre.segments) = 1 THEN pre.head
                ELSE pre.segments[Len(pre.segments) - 1]

C13_Witness ==
    /\ op.name = "add_segment"
    /\ Len(pre.segments) >= 1
    /\ pre.segments[Len(pre.segments)] /= pre.head
    /\ segments[Len(segments)] = pre.segments[Len(pre.segments)]

\* The playable sub-rectangle: |x| <= W - p and -(H - p) <= y <= H - Hs - p.
Playable(p, cfg) ==
    LET W == cfg.display_width \div 2
        H == cfg.display_height \div 2
        pad == cfg.sprite_size
    IN  /\ 0 - (W - pad) <= p[1] /\ p[1] <= W - pad
        /\ 0 - (H - pad) <= p[2] /\ p[2] <= (H - cfg.scoreboard_height) - pad

\* C14: every position the food is placed at lies in the playable
\* sub-rectangle, so never inside the scoreboard strip.
C14_FoodPlayable == food /= NoFood => Playable(food, config)

\* C15: at most one update() callback is pending at any time; the game
\* starts one chain and every tick schedules exactly one next tick.
C15_OneTickPending ==
    /\ timers <= 1
    /\ op.name \in {"init", "update"} => timers = 1
    /\ op.name = "update" => "ontimer" \in op.calls

C15_Witness ==
    /\ op.name = "update"
    /\ op.result
    /\ pre.head /= <<0, 0>>
    /\ timers = 1

\* C16: the game never halts by itself.  Every tick, a tick with a collision
\* included, leaves the next tick scheduled; under a fair timer ticks occur
\* again and again; and a tick run with a movement heading that does not
\* collide moves the head, from the origin as from anywhere else.
C16_NeverHalts ==
    /\ [](timers >= 1)
    /\ []<>tick
    /\ []<>(~ tick)
    /\ []((op.name = "update" /\ ~ op.result /\ pre.head_direction /= "STOP")
             => head /= pre.head)

C16_Witness ==
    /\ op.name = "update"
    /\ op.result
    /\ head = <<0, 0>>
    /\ head_direction = "STOP"
    /\ ~ tick
    /\ timers >= 1

\* The direction of the displacement from p to q, None when there is none.
DisplacementDir(p, q) ==
    CASE q[1] > p[1] /\ q[2] = p[2] -> "RIGHT"
      [] q[1] < p[1] /\ q[2] = p[2] -> "LEFT"
      [] q[1] = p[1] /\ q[2] > p[2] -> "UP"
      [] q[1] = p[1] /\ q[2] < p[2] -> "DOWN"
      [] OTHER -> None

Malformed(cfg) ==
    \/ cfg.display_width <= 0
    \/ cfg.display_height <= 0
    \/ cfg.sprite_size = 0

C18_MalformedRejected ==
    (op.name \in {"SnakeGame", "GameState"} /\ Malformed(config))
        => /\ op.result
           /\ timers = 0
           /\ food = NoFood

\* C19: the edge and self collision checks leave head, heading, segments,
\* score and food as they were.
C19_ChecksPure ==
    op.name \in {"tail_collision", "edge_collision"} =>
        /\ head = pre.head
        /\ head_direction = pre.head_direction
        /\ segments = pre.segments
        /\ food = pre.food
        /\ current = pre.current
        /\ best = pre.best

C19_Witness ==
    /\ op.name = "tail_collision"
    /\ op.result
    /\ Len(segments) = 2
    /\ head_direction /= "STOP"
    /\ head /= <<0, 0>>

\* The unit step of a movement direction.
UnitStep(d) ==
    CASE d = "UP" -> <<0, 1>>
      [] d = "DOWN" -> <<0, -1>>
      [] d = "LEFT" -> <<-1, 0>>
      [] d = "RIGHT" -> <<1, 0>>

\* C20: with a non-STOP heading one move() displaces the head by exactly
\* the step distance of that snake's configuration along one axis: UP +y,
\* DOWN -y, RIGHT +x, LEFT -x.
C20_StepDistance ==
    (op.name = "move" /\ pre.head_direction /= "STOP") =>
        head = <<pre.head[1] + config.move_delta * UnitStep(pre.head_direction)[1],
                 pre.head[2] + config.move_delta * UnitStep(pre.head_direction)[2]>>

\* C21: set_direction, accepted or rejected, changes neither the head
\* position nor the segments nor their number; the head position changes
\* only at the next move(), by one step along the heading held then.
C21_DirectionFrame ==
    /\ op.name = "set_direction" =>
          /\ head = pre.head
          /\ Len(segments) = Len(pre.segments)
          /\ \A i \in 1..Len(segments) : segments[i] = pre.segments[i]
    /\ op.name = "move" =>
          head = IF pre.head_direction = "STOP" THEN pre.head
                 ELSE <<pre.head[1]
                          + config.move_delta * UnitStep(pre.head_direction)[1],
                        pre.head[2]
                          + config.move_delta * UnitStep(pre.head_direction)[2]>>

C21_Witness ==
    /\ op.name = "move"
    /\ pre.last_move \in {"UP", "DOWN"}
    /\ pre.head_direction \in {"LEFT", "RIGHT"}
    /\ Len(segments) >= 1
    /\ head[1] /= pre.head[1]
    /\ head[2] = pre.head[2]

\* The rectangle in which a head registers no edge collision: with half
\* width W, half height H, half sprite size s and scoreboard height Hs,
\* -(W - s) <= x <= W - s and -(H - s) <= y <= H - Hs - s.
ValidHead(p, cfg) ==
    LET W == cfg.display_width \div 2
        H == cfg.display_height \div 2
        s == cfg.sprite_size \div 2
    IN  /\ s - W <= p[1] /\ p[1] <= W - s
        /\ s - H <= p[2] /\ p[2] <= (H - cfg.scoreboard_height) - s

ValidHeads(cfg) ==
    {p \in ((0 - cfg.display_width)..cfg.display_width)
              \X ((0 - cfg.display_height)..cfg.display_height) :
        ValidHead(p, cfg)}

\* C22: at the end of every tick, and so between ticks whatever direction
\* requests arrive, the head lies inside the edge-collision-free rectangle;
\* a tick that moves the head out of it puts the head back at the origin.
C22_HeadInside ==
    /\ ValidHead(head, config)
    /\ (op.name = "update" /\ op.result) => head = <<0, 0>>

C22_Witness ==
    /\ op.name = "update"
    /\ op.result
    /\ pre.head_direction = "RIGHT"
    /\ ValidHead(pre.head, config)
    /\ pre.head[1] + config.move_delta > (config.display_width \div 2)
                                            - (config.sprite_size \div 2)
    /\ head = <<0, 0>>

\* C23: food is always reachable.  Every food position lies inside the
\* edge-collision-free rectangle of the head, so some head position in that
\* rectangle is closer to the food than the sprite size.
C23_FoodReachable ==
    food /= NoFood =>
        /\ ValidHead(food, config)
        /\ \E h \in ValidHeads(config) :
               Dist2(h, food) < config.sprite_size * config.sprite_size

====
